---- MODULE Spec2Model ----
(***************************************************************************)
(* compare-csv.js: a positional comparison of two CSV files.               *)
(*                                                                         *)
(* A JavaScript string is modelled as a sequence of one-character strings, *)
(* so "" is << >> and "a,b" is << "a", ",", "b" >>.  A table is a sequence *)
(* of rows, a row a sequence of such strings.  Indices are 0-based in the  *)
(* variables, as in the code, and converted where a sequence is indexed.   *)
(* A character outside ASCII is named by its code point, as in "U+2028",   *)
(* so that distinct characters are distinct values.                        *)
(* Console output is not part of the state.                                *)
(***************************************************************************)
EXTENDS Integers, Sequences, FiniteSets, TLC

VARIABLES
    entry,        \* how the module is used: "main", "compareCSV" or "parseCSV"
    pc,           \* position in the code
    args,         \* process.argv.slice(2)
    fs,           \* the file system: path -> [exists, content]
    content1,     \* text read from the first file (the argument of parseCSV)
    content2,     \* text read from the second file
    csv1,         \* first table
    csv2,         \* second table
    file1Name,    \* display names handed to compareCSV
    file2Name,
    differences,  \* the list compareCSV builds and returns
    rowIndex,     \* loop variables of compareCSV (0-based)
    colIndex,
    stats,        \* the per-type counters of generateSummary
    written,      \* the reports written by saveDifferencesToFile
    ioError,      \* TRUE once the catch block of main has run
    exitCode      \* the process exit code, -1 while the process runs

vars == << entry, pc, args, fs, content1, content2, csv1, csv2, file1Name,
           file2Name, differences, rowIndex, colIndex, stats, written,
           ioError, exitCode >>

----------------------------------------------------------------------------
(* Bounds and input domains *)

MaxLen == 6        \* longest text handed to parseCSV directly
MaxFileLen == 2    \* longest file content in a run of main
MaxSize == 5       \* largest size of the two tables handed to compareCSV
                   \* directly, taken together

Quote == "\""
Comma == ","
Newline == "\n"
Tab == "\t"
FormFeed == "\f"
VerticalTab == ""       \* U+000B
NoBreakSpace == "U+00A0"
OghamSpace == "U+1680"
ByteOrderMark == "U+FEFF"

\* The characters of the texts handed to parseCSV.
Char == {"a", Comma, Quote, " ", FormFeed, Newline}

\* The characters of the files a run of main reads; readFileSync(path,
\* 'utf-8') keeps a byte order mark.
FileChar == {"a", Comma, Newline, ByteOrderMark}

\* The cells of the tables handed to compareCSV: "", "a" and "A".
Cell == {<< >>, <<"a">>, <<"A">>}

StringsUpTo(alphabet, n) == UNION {[1..k -> alphabet] : k \in 0..n}

----------------------------------------------------------------------------
(* parseCSV *)

\* ECMAScript WhiteSpace: TAB, VT, FF, SP, NBSP, ZWNBSP (the byte order mark)
\* and the space separators (Unicode Zs), which are U+1680, U+2000 to U+200A,
\* U+202F, U+205F and U+3000.
WhiteSpace ==
    {Tab, VerticalTab, FormFeed, " ", NoBreakSpace, ByteOrderMark, OghamSpace,
     "U+2000", "U+2001", "U+2002", "U+2003", "U+2004", "U+2005", "U+2006",
     "U+2007", "U+2008", "U+2009", "U+200A", "U+202F", "U+205F", "U+3000"}

\* ECMAScript LineTerminator: LF, CR, LS and PS.
LineTerminator == {Newline, "\r", "U+2028", "U+2029"}

\* The characters String.prototype.trim removes: WhiteSpace and LineTerminator.
IsSpace(c) == c \in WhiteSpace \cup LineTerminator

RECURSIVE TrimStart(_)
TrimStart(s) ==
    IF s # << >> /\ IsSpace(Head(s)) THEN TrimStart(Tail(s)) ELSE s

RECURSIVE TrimEnd(_)
TrimEnd(s) ==
    IF s # << >> /\ IsSpace(s[Len(s)]) THEN TrimEnd(SubSeq(s, 1, Len(s) - 1))
    ELSE s

\* s.trim()
Trim(s) == TrimEnd(TrimStart(s))

\* content.split('\n'): always at least one piece.
RECURSIVE Split(_)
Split(s) ==
    IF \E i \in 1..Len(s) : s[i] = Newline
    THEN LET i == CHOOSE k \in 1..Len(s) :
                      s[k] = Newline /\ \A j \in 1..(k - 1) : s[j] # Newline
         IN  << SubSeq(s, 1, i - 1) >> \o Split(SubSeq(s, i + 1, Len(s)))
    ELSE << s >>

\* The filter of line 8: line.trim() !== ''
NonBlank(line) == Trim(line) # << >>

\* A comma always splits, quoted or not.
SplitsAlways(char, inQuotes) == char = Comma

\* The test of line 20: char === ',' && !inQuotes
Splits(char, inQuotes) == char = Comma /\ ~inQuotes

\* The character loop of lines 15-26 from position i (1-based) on, then line 28.
RECURSIVE Scan(_, _, _, _, _)
Scan(line, i, result, current, inQuotes) ==
    IF i > Len(line) THEN Append(result, Trim(current))
    ELSE LET char == line[i] IN
         IF char = Quote
         THEN Scan(line, i + 1, result, current, ~inQuotes)
         ELSE IF Splits(char, inQuotes)
         THEN Scan(line, i + 1, Append(result, Trim(current)), << >>, inQuotes)
         ELSE Scan(line, i + 1, result, Append(current, char), inQuotes)

\* The quote flag starts set.
ParseLineStartQuoted(line) == Scan(line, 1, << >>, << >>, TRUE)

\* The callback of lines 9-30: one line to one row.
ParseLine(line) == Scan(line, 1, << >>, << >>, FALSE)

parseCSV(content) ==
    LET lines == SelectSeq(Split(content), NonBlank)
    IN  [k \in 1..Len(lines) |-> ParseLine(lines[k])]

----------------------------------------------------------------------------
(* The module used as a library: parseCSV called on a text *)

InitParseCSV ==
    /\ entry = "parseCSV"
    /\ pc = "call"
    /\ content1 \in StringsUpTo(Char, MaxLen)
    /\ args = << >>
    /\ fs = << >>
    /\ content2 = << >>
    /\ csv1 = << >>
    /\ csv2 = << >>
    /\ file1Name = << >>
    /\ file2Name = << >>
    /\ differences = << >>
    /\ rowIndex = 0
    /\ colIndex = 0
    /\ stats = << >>
    /\ written = << >>
    /\ ioError = FALSE
    /\ exitCode = -1

CallParseCSV ==
    /\ entry = "parseCSV"
    /\ pc = "call"
    /\ csv1' = parseCSV(content1)
    /\ pc' = "parsed"
    /\ UNCHANGED << entry, args, fs, content1, content2, csv2, file1Name,
                    file2Name, differences, rowIndex, colIndex, stats,
                    written, ioError, exitCode >>

NextParse == CallParseCSV

SpecParse == InitParseCSV /\ [][NextParse]_vars

----------------------------------------------------------------------------
(* compareCSV *)

DiffTypes == {"row_count", "missing_row", "column_count", "cell_difference"}

\* A template string is modelled as the sequence of its parts.
RowCountDiff(n1, n2, name1, name2) ==
    [type |-> "row_count",
     message |-> <<"Row count differs: ", name1, " has ", n1, " rows, ",
                   name2, " has ", n2, " rows">>]

\* The 0-based loop index is reported.
MissingRowDiffZeroBased(r, name, data) ==
    [type |-> "missing_row",
     row |-> r,
     message |-> <<"Row ", r, " exists only in ", name>>,
     data |-> data]

MissingRowDiff(r, name, data) ==
    [type |-> "missing_row",
     row |-> r + 1,
     message |-> <<"Row ", r + 1, " exists only in ", name>>,
     data |-> data]

ColumnCountDiff(r, n1, n2) ==
    [type |-> "column_count",
     row |-> r + 1,
     message |-> <<"Row ", r + 1, " has different column counts: ", n1,
                   " vs ", n2>>]

CellDiff(r, c, cell1, cell2) ==
    [type |-> "cell_difference",
     row |-> r + 1,
     column |-> c + 1,
     value1 |-> cell1,
     value2 |-> cell2,
     message |-> <<"Cell (", r + 1, ", ", c + 1, "): \"", cell1, "\" vs \"",
                   cell2, "\"">>]

Max(a, b) == IF a > b THEN a ELSE b

\* The last row of a table is taken for missing.
HasRowOffByOne(csv, r) == r + 1 < Len(csv)

\* csv[rowIndex] is truthy: a row, which is an array, is there.
HasRow(csv, r) == r < Len(csv)

\* csv[rowIndex] || []
RowAt(csv, r) == IF HasRow(csv, r) THEN csv[r + 1] ELSE << >>

\* row[colIndex] || ''
CellAt(row, c) ==
    IF c < Len(row) /\ row[c + 1] # << >> THEN row[c + 1] ELSE << >>

\* The letters of the model, folded to lower case.
LowerChar(ch) == IF ch = "A" THEN "a" ELSE ch

LowerCase(str) == [i \in 1..Len(str) |-> LowerChar(str[i])]

\* A comparison that ignores letter case.
CellsDifferIgnoringCase(cell1, cell2) == LowerCase(cell1) # LowerCase(cell2)

\* The test is inverted.
CellsDifferInverted(cell1, cell2) == cell1 = cell2

\* cell1 !== cell2
CellsDiffer(cell1, cell2) == cell1 # cell2

\* Only the shorter row's columns are walked.
MinCols(row1, row2) == IF Len(row1) < Len(row2) THEN Len(row1) ELSE Len(row2)

\* Math.max(row1.length, row2.length)
MaxColsOf(row1, row2) == Max(Len(row1), Len(row2))

\* The two lengths are never compared.
LengthsDifferNever(row1, row2) == FALSE

\* row1.length !== row2.length
LengthsDiffer(row1, row2) == Len(row1) # Len(row2)

\* The record is put in front of the list.
Unshift(list, record) == << record >> \o list

\* differences.push(record)
Push(list, record) == Append(list, record)

maxRows == Max(Len(csv1), Len(csv2))

row1 == RowAt(csv1, rowIndex)

row2 == RowAt(csv2, rowIndex)

\* Lines 35-50: the list is created and the row counts are compared.
RowCountCheck ==
    /\ pc = "compare"
    /\ differences' =
           IF Len(csv1) # Len(csv2)
           THEN Push(<< >>, RowCountDiff(Len(csv1), Len(csv2), file1Name, file2Name))
           ELSE << >>
    /\ rowIndex' = 0
    /\ pc' = "row"
    /\ UNCHANGED << entry, args, fs, content1, content2, csv1, csv2, file1Name,
                    file2Name, colIndex, stats, written, ioError, exitCode >>

\* Lines 59-69: the row is in the second table only.
MissingInFile1 ==
    /\ pc = "row"
    /\ rowIndex < maxRows
    /\ ~HasRow(csv1, rowIndex)
    /\ differences' = Push(differences, MissingRowDiff(rowIndex, file2Name, row2))
    /\ rowIndex' = rowIndex + 1
    /\ UNCHANGED << entry, pc, args, fs, content1, content2, csv1, csv2,
                    file1Name, file2Name, colIndex, stats, written, ioError,
                    exitCode >>

\* Lines 71-81: the row is in the first table only.
MissingInFile2 ==
    /\ pc = "row"
    /\ rowIndex < maxRows
    /\ HasRow(csv1, rowIndex)
    /\ ~HasRow(csv2, rowIndex)
    /\ differences' = Push(differences, MissingRowDiff(rowIndex, file1Name, row1))
    /\ rowIndex' = rowIndex + 1
    /\ UNCHANGED << entry, pc, args, fs, content1, content2, csv1, csv2,
                    file1Name, file2Name, colIndex, stats, written, ioError,
                    exitCode >>

\* Lines 84-94: the row is in both tables; its column counts are compared.
ColumnCountCheck ==
    /\ pc = "row"
    /\ rowIndex < maxRows
    /\ HasRow(csv1, rowIndex)
    /\ HasRow(csv2, rowIndex)
    /\ differences' =
           IF LengthsDiffer(row1, row2)
           THEN Push(differences, ColumnCountDiff(rowIndex, Len(row1), Len(row2)))
           ELSE differences
    /\ colIndex' = 0
    /\ pc' = "cell"
    /\ UNCHANGED << entry, args, fs, content1, content2, csv1, csv2, file1Name,
                    file2Name, rowIndex, stats, written, ioError, exitCode >>

\* Lines 96-117: one turn of the cell loop.
CompareCell ==
    /\ pc = "cell"
    /\ colIndex < MaxColsOf(row1, row2)
    /\ LET cell1 == CellAt(row1, colIndex)
           cell2 == CellAt(row2, colIndex)
       IN  differences' =
               IF CellsDiffer(cell1, cell2)
               THEN Push(differences, CellDiff(rowIndex, colIndex, cell1, cell2))
               ELSE differences
    /\ colIndex' = colIndex + 1
    /\ UNCHANGED << entry, pc, args, fs, content1, content2, csv1, csv2,
                    file1Name, file2Name, rowIndex, stats, written, ioError,
                    exitCode >>

\* Lines 96 and 119-127: the cell loop ends, the row loop goes on.
EndRow ==
    /\ pc = "cell"
    /\ colIndex >= MaxColsOf(row1, row2)
    /\ rowIndex' = rowIndex + 1
    /\ pc' = "row"
    /\ UNCHANGED << entry, args, fs, content1, content2, csv1, csv2, file1Name,
                    file2Name, differences, colIndex, stats, written, ioError,
                    exitCode >>

\* Lines 53 and 129: the row loop ends, the list is returned.
ReturnDifferences ==
    /\ pc = "row"
    /\ rowIndex >= maxRows
    /\ pc' = "returned"
    /\ UNCHANGED << entry, args, fs, content1, content2, csv1, csv2, file1Name,
                    file2Name, differences, rowIndex, colIndex, stats, written,
                    ioError, exitCode >>

NextCompare ==
    \/ RowCountCheck
    \/ MissingInFile1
    \/ MissingInFile2
    \/ ColumnCountCheck
    \/ CompareCell
    \/ EndRow
    \/ ReturnDifferences

----------------------------------------------------------------------------
(* The module used as a library: compareCSV called on two tables *)

\* The size of a row is the number of its cells, an empty row counting for
\* one; the size of a table is the sum of the sizes of its rows.
RowSize(row) == Max(1, Len(row))

RECURSIVE TableSize(_)
TableSize(table) ==
    IF table = << >> THEN 0 ELSE RowSize(Head(table)) + TableSize(Tail(table))

\* The rows of size n or less: any number of cells, none included.
RowsWithin(n) == UNION {[1..k -> Cell] : k \in 0..n}

\* The tables of size n or less.
TablesWithin[n \in 0..MaxSize] ==
    IF n = 0 THEN {<< >>}
    ELSE {<< >>} \cup
         UNION {{<<row>> \o t : t \in TablesWithin[n - RowSize(row)]} :
                    row \in RowsWithin(n)}

InitCompareCSV ==
    /\ entry = "compareCSV"
    /\ pc = "compare"
    /\ csv1 \in TablesWithin[MaxSize]
    /\ csv2 \in TablesWithin[MaxSize - TableSize(csv1)]
    /\ file1Name = "file1.csv"
    /\ file2Name = "file2.csv"
    /\ args = << >>
    /\ fs = << >>
    /\ content1 = << >>
    /\ content2 = << >>
    /\ differences = << >>
    /\ rowIndex = 0
    /\ colIndex = 0
    /\ stats = << >>
    /\ written = << >>
    /\ ioError = FALSE
    /\ exitCode = -1

SpecCompare == InitCompareCSV /\ [][NextCompare]_vars

----------------------------------------------------------------------------
(* main: the module run as a script *)

\* A path is the sequence of its components; "" is the empty sequence.
InputPaths == {<<"one.csv">>, <<"data", "two.csv">>}

OutputArgs == {<< >>, <<"out.json">>}

\* path.basename(p)
Basename(p) == IF p = << >> THEN "" ELSE p[Len(p)]

Files ==
    {[exists |-> FALSE, content |-> << >>]}
        \cup {[exists |-> TRUE, content |-> c] : c \in StringsUpTo(FileChar, MaxFileLen)}

ArgLists ==
    {<< >>}
        \cup {<<p>> : p \in InputPaths}
        \cup {<<p, q>> : p \in InputPaths, q \in InputPaths}
        \cup {<<p, q, o>> : p \in InputPaths, q \in InputPaths, o \in OutputArgs}

file1Path == args[1]

file2Path == args[2]

\* args[2] || null, with null modelled as the empty path
outputFile == IF Len(args) >= 3 THEN args[3] ELSE << >>

\* fs.existsSync(p)
ExistsSync(p) == fs[p].exists

\* The exit code is 0 whatever was found.
ExitStatusAlwaysZero(list) == 0

\* differences.length > 0 ? 1 : 0
ExitStatus(list) == IF Len(list) > 0 THEN 1 ELSE 0

\* The object of lines 161-165; the timestamp is not modelled further.
Report(list) ==
    [timestamp |-> "ISO-8601",
     totalDifferences |-> Len(list),
     differences |-> list]

\* The counters of lines 141-150.
CountByType(list) ==
    [t \in DiffTypes |-> Cardinality({i \in 1..Len(list) : list[i].type = t})]

InitMain ==
    /\ entry = "main"
    /\ pc = "main"
    /\ args \in ArgLists
    /\ fs \in [InputPaths -> Files]
    /\ content1 = << >>
    /\ content2 = << >>
    /\ csv1 = << >>
    /\ csv2 = << >>
    /\ file1Name = ""
    /\ file2Name = ""
    /\ differences = << >>
    /\ rowIndex = 0
    /\ colIndex = 0
    /\ stats = << >>
    /\ written = << >>
    /\ ioError = FALSE
    /\ exitCode = -1

\* process.exit(code)
ExitWith(code) ==
    /\ exitCode' = code
    /\ pc' = "exited"

\* Lines 175-186
CheckUsage ==
    /\ pc = "main"
    /\ IF Len(args) < 2
       THEN ExitWith(1)
       ELSE pc' = "exists1" /\ UNCHANGED exitCode
    /\ UNCHANGED << entry, args, fs, content1, content2, csv1, csv2, file1Name,
                    file2Name, differences, rowIndex, colIndex, stats, written,
                    ioError >>

\* Lines 189-192
CheckFile1 ==
    /\ pc = "exists1"
    /\ IF ~ExistsSync(file1Path)
       THEN ExitWith(1)
       ELSE pc' = "exists2" /\ UNCHANGED exitCode
    /\ UNCHANGED << entry, args, fs, content1, content2, csv1, csv2, file1Name,
                    file2Name, differences, rowIndex, colIndex, stats, written,
                    ioError >>

\* Lines 194-197
CheckFile2 ==
    /\ pc = "exists2"
    /\ IF ~ExistsSync(file2Path)
       THEN ExitWith(1)
       ELSE pc' = "read" /\ UNCHANGED exitCode
    /\ UNCHANGED << entry, args, fs, content1, content2, csv1, csv2, file1Name,
                    file2Name, differences, rowIndex, colIndex, stats, written,
                    ioError >>

\* Lines 202-203: both reads succeed.
ReadFiles ==
    /\ pc = "read"
    /\ content1' = fs[file1Path].content
    /\ content2' = fs[file2Path].content
    /\ pc' = "parse"
    /\ UNCHANGED << entry, args, fs, csv1, csv2, file1Name, file2Name,
                    differences, rowIndex, colIndex, stats, written, ioError,
                    exitCode >>

\* Lines 202-203: fs.readFileSync throws (a directory, no permission, ...).
ReadThrows ==
    /\ pc = "read"
    /\ pc' = "catch"
    /\ UNCHANGED << entry, args, fs, content1, content2, csv1, csv2, file1Name,
                    file2Name, differences, rowIndex, colIndex, stats, written,
                    ioError, exitCode >>

\* Lines 205-210: both texts are parsed and compareCSV is called.
ParseFiles ==
    /\ pc = "parse"
    /\ csv1' = parseCSV(content1)
    /\ csv2' = parseCSV(content2)
    /\ file1Name' = Basename(file1Path)
    /\ file2Name' = Basename(file2Path)
    /\ pc' = "compare"
    /\ UNCHANGED << entry, args, fs, content1, content2, differences, rowIndex,
                    colIndex, stats, written, ioError, exitCode >>

\* Line 213 and generateSummary, lines 133-157.
GenerateSummary ==
    /\ entry = "main"
    /\ pc = "returned"
    /\ stats' = IF Len(differences) = 0 THEN << >> ELSE CountByType(differences)
    /\ pc' = "save"
    /\ UNCHANGED << entry, args, fs, content1, content2, csv1, csv2, file1Name,
                    file2Name, differences, rowIndex, colIndex, written, ioError,
                    exitCode >>

\* Lines 216-218 and saveDifferencesToFile, lines 160-169: no output file was
\* asked for, or the report is written.
SaveDifferences ==
    /\ pc = "save"
    /\ written' =
           IF outputFile # << >>
           THEN Append(written, [file |-> outputFile, report |-> Report(differences)])
           ELSE written
    /\ pc' = "exit"
    /\ UNCHANGED << entry, args, fs, content1, content2, csv1, csv2, file1Name,
                    file2Name, differences, rowIndex, colIndex, stats, ioError,
                    exitCode >>

\* Line 167: fs.writeFileSync throws.
WriteThrows ==
    /\ pc = "save"
    /\ outputFile # << >>
    /\ pc' = "catch"
    /\ UNCHANGED << entry, args, fs, content1, content2, csv1, csv2, file1Name,
                    file2Name, differences, rowIndex, colIndex, stats, written,
                    ioError, exitCode >>

\* Line 221
ExitByDifferences ==
    /\ pc = "exit"
    /\ ExitWith(ExitStatus(differences))
    /\ UNCHANGED << entry, args, fs, content1, content2, csv1, csv2, file1Name,
                    file2Name, differences, rowIndex, colIndex, stats, written,
                    ioError >>

\* Lines 223-226
CatchError ==
    /\ pc = "catch"
    /\ ioError' = TRUE
    /\ ExitWith(1)
    /\ UNCHANGED << entry, args, fs, content1, content2, csv1, csv2, file1Name,
                    file2Name, differences, rowIndex, colIndex, stats, written >>

NextMain ==
    \/ CheckUsage
    \/ CheckFile1
    \/ CheckFile2
    \/ ReadFiles
    \/ ReadThrows
    \/ ParseFiles
    \/ NextCompare
    \/ GenerateSummary
    \/ SaveDifferences
    \/ WriteThrows
    \/ ExitByDifferences
    \/ CatchError

\* The script runs to its end: it is one synchronous thread that nothing
\* suspends.
SpecMain == InitMain /\ [][NextMain]_vars /\ WF_vars(NextMain)

----------------------------------------------------------------------------
(* The module as a whole: run as a script, or required and one of its two
   exports called *)

Init == InitMain \/ InitCompareCSV \/ InitParseCSV

Next == NextMain \/ NextParse

Spec == Init /\ [][Next]_vars

----------------------------------------------------------------------------
(* Claims about parseCSV, checked under SpecParse *)

\* The pieces of s between the positions in cuts, in order.
SegmentsAt(s, cuts) ==
    LET n == Cardinality(cuts)
        cutAt(j) == IF j = 0 THEN 0
                    ELSE IF j = n + 1 THEN Len(s) + 1
                    ELSE CHOOSE p \in cuts :
                             Cardinality({q \in cuts : q < p}) = j - 1
    IN  [j \in 1..(n + 1) |-> SubSeq(s, cutAt(j - 1) + 1, cutAt(j) - 1)]

PhysicalLines(content) ==
    SegmentsAt(content, {i \in 1..Len(content) : content[i] = Newline})

HasText(s) == \E i \in 1..Len(s) : ~IsSpace(s[i])

QuotesBefore(line, i) == Cardinality({j \in 1..(i - 1) : line[j] = Quote})

\* The commas preceded by an even number of quote characters on their line.
SplittingCommas(line) ==
    {i \in 1..Len(line) : line[i] = Comma /\ QuotesBefore(line, i) % 2 = 0}

WithoutQuotes(s) == SelectSeq(s, LAMBDA c : c # Quote)

\* s from its first to its last character that is not whitespace.
Stripped(s) ==
    IF ~HasText(s) THEN << >>
    ELSE LET keep == {i \in 1..Len(s) : ~IsSpace(s[i])}
             lo == CHOOSE i \in keep : \A j \in keep : i <= j
             hi == CHOOSE i \in keep : \A j \in keep : j <= i
         IN  SubSeq(s, lo, hi)

ExpectedRow(line) ==
    LET raw == SegmentsAt(line, SplittingCommas(line))
    IN  [j \in 1..Len(raw) |-> Stripped(WithoutQuotes(raw[j]))]

ExpectedTable(content) ==
    LET kept == SelectSeq(PhysicalLines(content), HasText)
    IN  [k \in 1..Len(kept) |-> ExpectedRow(kept[k])]

\* C9: parseCSV yields one row per physical line that is not blank, in input
\* order; a row has one field more than its line has commas preceded by an
\* even number of quotes, so at least one; a field is the text between such
\* commas with the quotes removed and then trimmed, end of line closing the
\* last field whatever the quote flag is.
C9_ParseShape ==
    pc = "parsed" =>
        /\ csv1 = ExpectedTable(content1)
        /\ Len(csv1) = Cardinality({k \in DOMAIN PhysicalLines(content1) :
                                        HasText(PhysicalLines(content1)[k])})
        /\ \A k \in DOMAIN csv1 : Len(csv1[k]) >= 1

\* A text with an unterminated quote that protects a comma, followed by a
\* blank line that is dropped.
C9_Witness ==
    /\ pc = "parsed"
    /\ QuotesBefore(content1, Len(content1) + 1) = 1
    /\ Len(PhysicalLines(content1)) = 2
    /\ Len(csv1) = 1
    /\ \E j \in DOMAIN csv1[1] : \E i \in DOMAIN csv1[1][j] : csv1[1][j][i] = Comma

\* The serialization the round trip is stated for: fields joined by commas, a
\* field that holds a comma wrapped in quotes, rows joined by newlines.
SerializeField(f) ==
    IF \E i \in 1..Len(f) : f[i] = Comma THEN <<Quote>> \o f \o <<Quote>> ELSE f

RECURSIVE Join(_, _)
Join(pieces, sep) ==
    IF pieces = << >> THEN << >>
    ELSE IF Len(pieces) = 1 THEN pieces[1]
    ELSE pieces[1] \o <<sep>> \o Join(Tail(pieces), sep)

SerializeRow(row) == Join([j \in 1..Len(row) |-> SerializeField(row[j])], Comma)

Serialize(table) == Join([k \in 1..Len(table) |-> SerializeRow(table[k])], Newline)

\* A quote character is embedded when it is not one of the two quotes that wrap
\* a whole field: every field of such a text is either free of quotes or,
\* whitespace around it aside, one pair of quotes around text free of quotes.
WellQuotedField(raw) ==
    LET t == Stripped(raw)
    IN  \/ \A i \in 1..Len(t) : t[i] # Quote
        \/ /\ Len(t) >= 2
           /\ t[1] = Quote
           /\ t[Len(t)] = Quote
           /\ \A i \in 2..(Len(t) - 1) : t[i] # Quote

NoEmbeddedQuotes(content) ==
    \A k \in DOMAIN PhysicalLines(content) :
        LET line == PhysicalLines(content)[k]
            raw == SegmentsAt(line, SplittingCommas(line))
        IN  \A j \in DOMAIN raw : WellQuotedField(raw[j])

IsEmptyRow(row) == row = << << >> >>

\* C5 as stated: for a text without embedded quotes, parsing the serialized
\* table gives the table back.
C5_RoundTripAsStated ==
    (pc = "parsed" /\ NoEmbeddedQuotes(content1)) =>
        parseCSV(Serialize(csv1)) = csv1

\* C5, amended: parsing the serialized table gives the table without its rows
\* that are a single empty field (such a row serializes to a blank line); so
\* it gives the table back when no line of the text is only quotes and
\* whitespace.
C5_RoundTrip ==
    pc = "parsed" =>
        /\ parseCSV(Serialize(csv1)) =
               SelectSeq(csv1, LAMBDA row : ~IsEmptyRow(row))
        /\ (\A k \in DOMAIN csv1 : ~IsEmptyRow(csv1[k])) =>
               parseCSV(Serialize(csv1)) = csv1

\* A table with a field that is quoted again when serialized, and no row that
\* is a single empty field.
C5_Witness ==
    /\ pc = "parsed"
    /\ NoEmbeddedQuotes(content1)
    /\ Len(csv1) = 2
    /\ \A k \in DOMAIN csv1 : ~IsEmptyRow(csv1[k])
    /\ \E j \in DOMAIN csv1[1] : SerializeField(csv1[1][j]) # csv1[1][j]

----------------------------------------------------------------------------
(* Claims about compareCSV, checked under SpecCompare *)

Min(a, b) == IF a < b THEN a ELSE b

\* The positions of the records of one type.
OfType(list, t) == {i \in 1..Len(list) : list[i].type = t}

\* The positions of the records of one type that carry the 1-based row r.
AtRow(list, t, r) == {i \in OfType(list, t) : list[i].row = r}

\* The cell at the 1-based column c, the empty string beyond the row's end.
ValueAt(row, c) == IF c <= Len(row) THEN row[c] ELSE << >>

IsProperPrefix(short, long) ==
    /\ Len(short) < Len(long)
    /\ \A k \in 1..Len(short) : short[k] = long[k]

\* The file a missing_row record names.
NamedFile(record) == record.message[4]

\* The list to expect when short, of the file named other, is a proper prefix
\* of long, of the file named name.
OnlyExtraRows(list, short, long, name) ==
    /\ Len(list) = 1 + (Len(long) - Len(short))
    /\ list[1].type = "row_count"
    /\ \A j \in 1..(Len(long) - Len(short)) :
           /\ list[1 + j].type = "missing_row"
           /\ list[1 + j].row = Len(short) + j
           /\ list[1 + j].data = long[Len(short) + j]
           /\ NamedFile(list[1 + j]) = name
    /\ OfType(list, "cell_difference") = {}
    /\ OfType(list, "column_count") = {}

\* C3: when one table is a proper prefix of the other, with k extra rows, the
\* list is one row_count record and then one missing_row record per extra row,
\* in row order, with the row's 1-based index, its fields and the name of the
\* file that has it, and nothing else.
C3_ExtraRows ==
    pc = "returned" =>
        /\ IsProperPrefix(csv1, csv2) =>
               OnlyExtraRows(differences, csv1, csv2, file2Name)
        /\ IsProperPrefix(csv2, csv1) =>
               OnlyExtraRows(differences, csv2, csv1, file1Name)

\* A table of one row compared with the same table followed by two more rows.
C3_Witness ==
    /\ pc = "returned"
    /\ IsProperPrefix(csv1, csv2)
    /\ Len(csv1) = 1
    /\ Len(csv2) = 3
    /\ csv2[2] # csv2[3]

\* C4: for every row in both tables and every column up to the longer row's
\* length, a cell beyond a row's end read as the empty string: exactly one
\* cell_difference record with that row, column and the two values when the
\* values differ as strings, and none when they are equal.
C4_CellDifferences ==
    pc = "returned" =>
        \A r \in 1..Min(Len(csv1), Len(csv2)) :
            \A c \in 1..Max(Len(csv1[r]), Len(csv2[r])) :
                LET v1 == ValueAt(csv1[r], c)
                    v2 == ValueAt(csv2[r], c)
                    found == {i \in AtRow(differences, "cell_difference", r) :
                                  differences[i].column = c}
                IN  IF v1 # v2
                    THEN /\ Cardinality(found) = 1
                         /\ \A i \in found : /\ differences[i].value1 = v1
                                             /\ differences[i].value2 = v2
                    ELSE found = {}

\* A row of one cell against a row of two cells: the first cells differ by
\* letter case only, the second cell is empty and so equal to the cell that is
\* not there.
C4_Witness ==
    /\ pc = "returned"
    /\ Len(csv1) >= 1
    /\ Len(csv2) >= 1
    /\ Len(csv1[1]) = 1
    /\ Len(csv2[1]) = 2
    /\ csv1[1][1] # csv2[1][1]
    /\ LowerCase(csv1[1][1]) = LowerCase(csv2[1][1])
    /\ csv2[1][2] = << >>
    /\ Cardinality(AtRow(differences, "cell_difference", 1)) = 1

\* C6: a row in both tables has exactly one column_count record when the two
\* rows differ in length and none when they do not; its cells are compared all
\* the same, over the longer row's columns; a row in one table only has no
\* column_count record.
C6_ColumnCount ==
    pc = "returned" =>
        \A r \in 1..Max(Len(csv1), Len(csv2)) :
            LET found == AtRow(differences, "column_count", r)
            IN  IF r <= Min(Len(csv1), Len(csv2)) /\ Len(csv1[r]) # Len(csv2[r])
                THEN /\ Cardinality(found) = 1
                     /\ \A c \in 1..Max(Len(csv1[r]), Len(csv2[r])) :
                            ValueAt(csv1[r], c) # ValueAt(csv2[r], c) =>
                                \E i \in AtRow(differences, "cell_difference", r) :
                                    differences[i].column = c
                ELSE found = {}

\* Rows of different lengths that differ in the first cell and in the cell
\* only the longer row has, and a further row that is in one table only.
C6_Witness ==
    /\ pc = "returned"
    /\ Len(csv1) = 2
    /\ Len(csv2) = 1
    /\ Len(csv1[1]) = 2
    /\ Len(csv2[1]) = 1
    /\ Cardinality(AtRow(differences, "column_count", 1)) = 1
    /\ Cardinality(AtRow(differences, "cell_difference", 1)) = 2

IsPrefixOf(a, b) == Len(a) <= Len(b) /\ \A i \in 1..Len(a) : a[i] = b[i]

\* A row_count record is first; the other records are in row order; within a
\* row a column_count record comes before the cell_difference records, which
\* are in column order.
Ordered(list) ==
    /\ \A i \in OfType(list, "row_count") : i = 1
    /\ \A i, j \in 1..Len(list) :
           (i < j /\ list[i].type # "row_count" /\ list[j].type # "row_count") =>
               /\ list[i].row <= list[j].row
               /\ list[j].type = "column_count" => list[i].row < list[j].row
               /\ (list[i].type = "cell_difference"
                     /\ list[j].type = "cell_difference"
                     /\ list[i].row = list[j].row) =>
                       list[i].column < list[j].column

\* C7: the list only grows at its end: at every step it is a prefix of the
\* list after the step; and it is ordered by discovery: the row_count record
\* first, then by row, in a row the column_count record and then the
\* cell_difference records by column.
C7_AppendOnlyOrdered ==
    /\ [][IsPrefixOf(differences, differences')]_vars
    /\ [](Ordered(differences))

\* A returned list with a row_count record, a row with a column_count record
\* and two cell_difference records, and a missing row after it.
C7_Witness ==
    /\ pc = "returned"
    /\ OfType(differences, "row_count") = {1}
    /\ Cardinality(AtRow(differences, "column_count", 1)) = 1
    /\ Cardinality(AtRow(differences, "cell_difference", 1)) = 2
    /\ Cardinality(AtRow(differences, "missing_row", 2)) = 1

\* The second table is the first with the row at its top inserted.
InsertedAtTop == csv2 # << >> /\ Tail(csv2) = csv1

\* The positions of the records about row r that are not missing_row records.
ReportedAt(list, r) ==
    AtRow(list, "cell_difference", r) \cup AtRow(list, "column_count", r)

TrailingMissingRow ==
    /\ Cardinality(OfType(differences, "missing_row")) = 1
    /\ \A i \in OfType(differences, "missing_row") :
           /\ differences[i].row = Len(csv1) + 1
           /\ NamedFile(differences[i]) = file2Name
           /\ i = Len(differences)

\* Every row has at least one field, as the rows parseCSV yields have.
RowsHaveFields(table) == \A r \in 1..Len(table) : Len(table[r]) >= 1

\* C8 as stated, for tables as parseCSV yields them: with a row inserted at
\* the top of the second table, every row position from 2 to the first
\* table's length has a difference, and there is one trailing missing row.
C8_InsertedRowAsStated ==
    (pc = "returned" /\ InsertedAtTop /\ RowsHaveFields(csv2)) =>
        /\ \A r \in 2..Len(csv1) : ReportedAt(differences, r) # {}
        /\ TrailingMissingRow

\* C8, amended: with a row inserted at the top of the second table, a row
\* position of the first table has a difference exactly when its row differs
\* from the row that now faces it, which from position 2 on is the row above
\* it in the first table; and there is one trailing missing row.
C8_InsertedRow ==
    (pc = "returned" /\ InsertedAtTop) =>
        /\ \A r \in 1..Len(csv1) :
               ReportedAt(differences, r) # {} <=>
                   csv1[r] # (IF r = 1 THEN csv2[1] ELSE csv1[r - 1])
        /\ TrailingMissingRow

\* Two different rows under an inserted row that differs from the first.
C8_Witness ==
    /\ pc = "returned"
    /\ InsertedAtTop
    /\ Len(csv1) = 2
    /\ csv1[1] # csv1[2]
    /\ csv2[1] # csv1[1]
    /\ ReportedAt(differences, 2) # {}

----------------------------------------------------------------------------
(* Claims about main, checked under SpecMain *)

BothGiven == Len(args) >= 2

BothExist == BothGiven /\ ExistsSync(file1Path) /\ ExistsSync(file2Path)

\* C2: a run of main ends, with exit code 0 or 1; the code is 0 exactly when
\* both arguments were given, both files exist, nothing was thrown while
\* reading or writing, and compareCSV returned an empty list.
C2_ExitCode ==
    /\ <>(pc = "exited")
    /\ [](pc = "exited" =>
              /\ exitCode \in {0, 1}
              /\ exitCode = 0 <=>
                     (BothExist /\ ~ioError /\ differences = << >>))

\* A run on two files that parse to the same table and that ends with code 1,
\* because writing the report failed.
C2_Witness ==
    /\ pc = "exited"
    /\ exitCode = 1
    /\ ioError
    /\ BothExist
    /\ csv1 # << >>
    /\ csv1 = csv2
    /\ differences = << >>
    /\ outputFile # << >>

----------------------------------------------------------------------------
(* Claims about compareCSV and main together, checked under Spec *)

\* The two files of a run parse to the same table.
SameTables ==
    /\ entry = "main"
    /\ BothExist
    /\ parseCSV(fs[file1Path].content) = parseCSV(fs[file2Path].content)

\* C1: compareCSV returns the empty list for two tables of the same content,
\* and a run on two files that parse to the same table, in which nothing is
\* thrown, ends with exit code 0.
C1_Identical ==
    /\ (pc = "returned" /\ csv1 = csv2) => differences = << >>
    /\ (pc = "exited" /\ SameTables /\ ~ioError) => exitCode = 0

\* A run on two files of different text that parse to the same table.
C1_Witness ==
    /\ pc = "exited"
    /\ SameTables
    /\ ~ioError
    /\ fs[file1Path].content # fs[file2Path].content
    /\ csv1 # << >>
    /\ csv1 = csv2
    /\ exitCode = 0

\* C10: when compareCSV returns the empty list the tables have the same
\* number of rows, and in every row the same number of cells and the same
\* cells; so a run that ends with exit code 0 read two files that parse to
\* the same table.
C10_NoFalseNegative ==
    /\ (pc = "returned" /\ differences = << >>) =>
           /\ Len(csv1) = Len(csv2)
           /\ \A r \in 1..Len(csv1) :
                  /\ Len(csv1[r]) = Len(csv2[r])
                  /\ \A c \in 1..Len(csv1[r]) : csv1[r][c] = csv2[r][c]
    /\ (entry = "main" /\ pc = "exited" /\ exitCode = 0) => SameTables

\* Two equal tables with an empty cell at the end of their row, compared
\* through the export.
C10_Witness ==
    /\ entry = "compareCSV"
    /\ pc = "returned"
    /\ differences = << >>
    /\ Len(csv1) = 1
    /\ Len(csv1[1]) = 2
    /\ csv1[1][1] # << >>
    /\ csv1[1][2] = << >>

====
